---- MODULE Spec2Model ----
(***************************************************************************)
(* Model of scripts/font-squirrel-translator.py: the FontSquirrelTranslator *)
(* class (fetch_fonts, transform_font and its helpers, translate) and       *)
(* main().  Python strings are sequences of one-character strings, so that  *)
(* lower(), replace() and the `in` substring test are computed and not      *)
(* assumed.  An optional dict key is a sequence of length 0 (key absent) or *)
(* 1 (key present, with its value).                                        *)
(***************************************************************************)
EXTENDS Integers, Sequences, FiniteSets, TLC

VARIABLES
  pc,           \* position of the run: in main()/translate(), or call/return of a helper
  arg, ret,     \* argument and result of the helper exercised on its own
  raw_fonts,    \* translate(): the list fetch_fonts() returned
  idx,          \* translate(): 1-based position of the for loop in raw_fonts
  fonts,        \* translate(): the fonts dict, font_id -> FontEntry
  processed,    \* translate(): counter
  skipped,      \* translate(): counter
  source_data,  \* main(): the document translate() returned (optional)
  file,         \* sources/font-squirrel.json on disk
  file_before,  \* that file as it was when the run started
  exitCode,     \* what main() returned, -1 while it runs
  fetched,      \* how the one session.get() ended
  log           \* the run's events in order: request, transform i, open, and how it ended

vars == <<pc, arg, ret, raw_fonts, idx, fonts, processed, skipped, source_data,
          file, file_before, exitCode, fetched, log>>

(* ---------------------------- Python strings --------------------------- *)

UpperChars == <<"A","B","C","D","E","F","G","H","I","J","K","L","M","N","O","P","Q","R","S","T","U","V","W","X","Y","Z">>

LowerChars == <<"a","b","c","d","e","f","g","h","i","j","k","l","m","n","o","p","q","r","s","t","u","v","w","x","y","z">>

\* str.lower() on one character
LowerChar(c) ==
  IF \E i \in 1..Len(UpperChars) : UpperChars[i] = c
  THEN LowerChars[CHOOSE i \in 1..Len(UpperChars) : UpperChars[i] = c]
  ELSE c

\* str.lower()
lower(s) == [i \in 1..Len(s) |-> LowerChar(s[i])]

\* str.replace(old, new) for a one-character old and new
replace(s, old, new) == [i \in 1..Len(s) |-> IF s[i] = old THEN new ELSE s[i]]

\* the Python test `sub in s`
Contains(s, sub) ==
  \E i \in 1..(Len(s) - Len(sub) + 1) : SubSeq(s, i, i + Len(sub) - 1) = sub

(* ------------------------- _parse_weight / _parse_style ---------------- *)

_parse_weight(variant_name) ==
  LET variant_lower == lower(variant_name) IN
  IF Contains(variant_lower, <<"t","h","i","n">>) \/ Contains(variant_lower, <<"h","a","i","r","l","i","n","e">>) THEN 100
  ELSE IF Contains(variant_lower, <<"e","x","t","r","a","-","l","i","g","h","t">>) \/ Contains(variant_lower, <<"u","l","t","r","a","-","l","i","g","h","t">>) THEN 200
  ELSE IF Contains(variant_lower, <<"l","i","g","h","t">>) THEN 300
  ELSE IF Contains(variant_lower, <<"r","e","g","u","l","a","r">>) \/ Contains(variant_lower, <<"n","o","r","m","a","l">>) THEN 400
  ELSE IF Contains(variant_lower, <<"m","e","d","i","u","m">>) THEN 500
  ELSE IF Contains(variant_lower, <<"s","e","m","i","-","b","o","l","d">>) \/ Contains(variant_lower, <<"d","e","m","i","-","b","o","l","d">>) THEN 600
  ELSE IF Contains(variant_lower, <<"b","o","l","d">>) THEN 700
  ELSE IF Contains(variant_lower, <<"e","x","t","r","a","-","b","o","l","d">>) \/ Contains(variant_lower, <<"u","l","t","r","a","-","b","o","l","d">>) THEN 800
  ELSE IF Contains(variant_lower, <<"b","l","a","c","k">>) \/ Contains(variant_lower, <<"h","e","a","v","y">>) THEN 900
  ELSE 400

_parse_style(variant_name) ==
  LET variant_lower == lower(variant_name) IN
  IF Contains(variant_lower, <<"i","t","a","l","i","c">>) \/ Contains(variant_lower, <<"o","b","l","i","q","u","e">>)
  THEN "italic"
  ELSE "normal"


(* ------------------------------ dict access ---------------------------- *)

Absent == <<>>

Some(v) == <<v>>

\* dict.get(key, default) for an optional key
get(field, default) == IF field = Absent THEN default ELSE field[1]

\* truth value of dict.get(key) for a string or list value: present and not empty
truthy(field) == field # Absent /\ field[1] # <<>>

Min(a, b) == IF a < b THEN a ELSE b

(* ------------------------------ font_id -------------------------------- *)

SourceTag == <<"squirrel.">>

\* mutant of font_id: the underscore replacement is left out
font_id_no_underscore(family_name) ==
  SourceTag \o replace(lower(family_name), " ", "-")

\* f"squirrel.{family_name.lower().replace(' ', '-').replace('_', '-')}"
font_id(family_name) ==
  SourceTag \o replace(replace(lower(family_name), " ", "-"), "_", "-")

\* font_data.get("family_urlname", family_name.lower().replace(" ", "-"))
family_urlname(font_data, family_name) ==
  get(font_data.family_urlname, replace(lower(family_name), " ", "-"))

(* --------------------------- _extract_variants ------------------------- *)

MaxVariants == 5

DownloadPrefix == <<"https://www.fontsquirrel.com/fonts/download/">>

variant_patterns ==
  << [name |-> <<"R","e","g","u","l","a","r">>,     weight |-> 400, style |-> "normal"],
     [name |-> <<"B","o","l","d">>,        weight |-> 700, style |-> "normal"],
     [name |-> <<"I","t","a","l","i","c">>,      weight |-> 400, style |-> "italic"],
     [name |-> <<"B","o","l","d"," ","I","t","a","l","i","c">>, weight |-> 700, style |-> "italic"],
     [name |-> <<"L","i","g","h","t">>,       weight |-> 300, style |-> "normal"],
     [name |-> <<"M","e","d","i","u","m">>,      weight |-> 500, style |-> "normal"],
     [name |-> <<"S","e","m","i"," ","B","o","l","d">>,   weight |-> 600, style |-> "normal"],
     [name |-> <<"E","x","t","r","a"," ","B","o","l","d">>,  weight |-> 800, style |-> "normal"],
     [name |-> <<"B","l","a","c","k">>,       weight |-> 900, style |-> "normal"] >>

\* the files dict of one font_files entry: the formats whose url is present
file_urls(file_info) ==
  LET url(fmt) == IF fmt = "ttf" THEN file_info.ttf_url ELSE file_info.otf_url
      fmts == {fmt \in {"ttf", "otf"} : truthy(url(fmt))}
  IN [fmt \in fmts |-> url(fmt)[1]]

\* the loop over font_files: one variant per entry that has a url, in order
RECURSIVE explicit_variants(_)
explicit_variants(font_files) ==
  IF font_files = <<>> THEN <<>>
  ELSE LET file_info == Head(font_files)
           variant_name == get(file_info.name, <<"R","e","g","u","l","a","r">>)
           files == file_urls(file_info)
           rest == explicit_variants(Tail(font_files))
       IN IF DOMAIN files # {}
          THEN << [name |-> variant_name,
                   weight |-> _parse_weight(variant_name),
                   style |-> _parse_style(variant_name),
                   subsets |-> <<"latin">>,
                   files |-> files] >> \o rest
          ELSE rest

\* the loop over variant_patterns
fallback_variants(font_data) ==
  LET family_name == get(font_data.family_name, <<>>) IN
  [i \in 1..Len(variant_patterns) |->
     LET p == variant_patterns[i]
         variant_urlname == replace(lower(p.name), " ", "-")
         ttf_url == DownloadPrefix \o family_urlname(font_data, family_name)
                      \o <<"/">> \o variant_urlname
     IN [name |-> family_name \o <<" ">> \o p.name,
         weight |-> p.weight,
         style |-> p.style,
         subsets |-> <<"latin">>,
         files |-> [fmt \in {"ttf"} |-> ttf_url]]]

\* mutant of truncate: the list is returned whole
truncate_none(variants) == variants

\* variants[:5]
truncate(variants) == SubSeq(variants, 1, Min(MaxVariants, Len(variants)))

_extract_variants(font_data) ==
  LET font_files == get(font_data.font_files, <<>>) IN
  truncate(IF font_files # <<>>
           THEN explicit_variants(font_files)
           ELSE fallback_variants(font_data))

(* ------------------------- _calculate_popularity ----------------------- *)

BaseScore == 50

FreeBonus == 20

DescriptionBonus == 10

DesignerBonus == 10

FoundryBonus == 5

VariantBonusCap == 15

MaxScore == 100

\* mutant of clamp: the final min() is left out
clamp_none(score) == score

clamp(score) == Min(score, MaxScore)

_calculate_popularity(font_data) ==
  LET s0 == BaseScore
      s1 == IF font_data.is_free THEN s0 + FreeBonus ELSE s0
      s2 == IF truthy(font_data.description) \/ truthy(font_data.short_description)
            THEN s1 + DescriptionBonus ELSE s1
      s3 == IF truthy(font_data.designer) THEN s2 + DesignerBonus ELSE s2
      s4 == IF truthy(font_data.foundry) THEN s3 + FoundryBonus ELSE s3
      font_files == get(font_data.font_files, <<>>)
      s5 == IF Len(font_files) > 1
            THEN s4 + Min(Len(font_files) * 2, VariantBonusCap) ELSE s4
  IN clamp(s5)

(* ------------------------------ last_modified -------------------------- *)
(* A timestamp string is a sequence of lexical pieces: "D" a date           *)
(* YYYY-MM-DD, "t" a time HH:MM:SS, "T" and " " one-character separators,   *)
(* "Z", "+00:00" and "+05:30" the timezone designators, "x" any other text  *)
(* of two characters or more.  "00:00:00" and "05:30:00" are times that     *)
(* isoformat() prints.                                                      *)

UtcOffsets == {"+00:00", "+05:30"}

\* datetime.fromisoformat accepts: date, date sep time, date sep time offset.
\* The separator is any one character, so an offset that follows the date
\* directly is read as separator "+" and time HH:MM.
parses(s) ==
  \/ s = <<"D">>
  \/ Len(s) = 2 /\ s[1] = "D" /\ s[2] \in UtcOffsets
  \/ Len(s) \in {3, 4} /\ s[1] = "D" /\ s[2] \in {"T", " "} /\ s[3] = "t"
       /\ (Len(s) = 4 => s[4] \in UtcOffsets)

\* datetime.fromisoformat(s), for s that parses
fromisoformat(s) ==
  [date |-> s[1],
   time |-> IF Len(s) >= 3 THEN s[3]
            ELSE IF Len(s) = 2 THEN (IF s[2] = "+00:00" THEN "00:00:00" ELSE "05:30:00")
            ELSE "00:00:00",
   tzinfo |-> IF Len(s) = 4 THEN <<s[4]>> ELSE <<>>]

\* datetime.isoformat(): the offset is printed when the datetime is aware
isoformat(dt) == <<dt.date, "T", dt.time>> \o dt.tzinfo

\* lines 88-95
last_modified(font_data) ==
  LET updated_at == get(font_data.updated_at, <<>>) IN
  IF updated_at = <<>> THEN <<>>
  ELSE LET s == replace(updated_at, "Z", "+00:00") IN
       IF parses(s) THEN isoformat(fromisoformat(s)) \o <<"Z">> ELSE <<>>

(* --------------- _extract_unicode_ranges / _extract_languages ---------- *)

\* font_data.get("classification", {}).get("name", "").lower()
classification_name(font_data) ==
  lower(get(get(font_data.classification, [name |-> Absent]).name, <<>>))

is_latin_class(font_data) ==
  LET n == classification_name(font_data) IN
  Contains(n, <<"l","a","t","i","n">>) \/ Contains(n, <<"s","a","n","s">>) \/ Contains(n, <<"s","e","r","i","f">>)

_extract_unicode_ranges(font_data) ==
  <<"U+0000-00FF">> \o (IF is_latin_class(font_data) THEN <<"U+0100-017F">> ELSE <<>>)

_extract_languages(font_data) ==
  <<"Latin">> \o (IF is_latin_class(font_data) THEN <<"Latin Extended">> ELSE <<>>)

(* ------------------------------ transform_font ------------------------- *)

\* an exception raised inside the try block of transform_font: .get on a
\* license value that is not a JSON object
mapping_raises(font_data) ==
  font_data.license # Absent /\ ~font_data.license[1].isdict

\* the exception leaves transform_font: font_data itself is not a JSON object,
\* so font_data.get raises in the try block and again in the except handler
transform_raises(font_data) == ~font_data.isdict

\* lines 51-126, for a dict with a family name and no exception
font_entry(font_data) ==
  LET family_name == font_data.family_name[1]
      license_info == get(font_data.license, [isdict |-> TRUE, name |-> Absent, url |-> Absent])
      classification == get(font_data.classification, [name |-> Absent])
      category == get(classification.name, <<"O","t","h","e","r">>)
      class_tag == IF truthy(classification.name)
                   THEN <<replace(lower(classification.name[1]), " ", "-")>>
                   ELSE <<>>
      tags == class_tag \o (IF font_data.is_free THEN <<<<"f","r","e","e">>>> ELSE <<<<"c","o","m","m","e","r","c","i","a","l">>>>)
      description == IF ~truthy(font_data.description) /\ truthy(font_data.short_description)
                     THEN font_data.short_description[1]
                     ELSE get(font_data.description, <<>>)
      urlname == family_urlname(font_data, family_name)
  IN [name |-> family_name,
      family |-> family_name,
      license |-> get(license_info.name, <<"U","n","k","n","o","w","n">>),
      license_url |-> get(license_info.url, <<>>),
      designer |-> get(font_data.designer, <<>>),
      foundry |-> get(font_data.foundry, <<>>),
      version |-> get(font_data.version, <<"1",".","0">>),
      description |-> description,
      categories |-> IF category # <<"O","t","h","e","r">> THEN <<category>> ELSE <<>>,
      tags |-> tags,
      popularity |-> _calculate_popularity(font_data),
      last_modified |-> last_modified(font_data),
      metadata_url |-> <<"https://www.fontsquirrel.com/api/familyinfo/">> \o urlname,
      source_url |-> <<"https://www.fontsquirrel.com/fonts/">> \o urlname,
      variants |-> _extract_variants(font_data),
      unicode_ranges |-> _extract_unicode_ranges(font_data),
      languages |-> _extract_languages(font_data),
      sample_text |-> "The quick brown fox jumps over the lazy dog"]

\* transform_font for a record that does not make it raise: None is Absent
transform_font(font_data) ==
  IF ~truthy(font_data.family_name) THEN Absent
  ELSE IF mapping_raises(font_data) THEN Absent
  ELSE Some(font_entry(font_data))

(* ------------------------- translate(): the document ------------------- *)

source_info(total_fonts) ==
  [name |-> "Font Squirrel",
   description |-> "Free and commercial fonts from Font Squirrel",
   url |-> "https://www.fontsquirrel.com",
   api_endpoint |-> "https://www.fontsquirrel.com/api/fontlist/all",
   version |-> "1.0",
   last_updated |-> "utcnow",
   total_fonts |-> total_fonts]

\* len(fonts)
len(d) == Cardinality(DOMAIN d)

\* mutant of make_source: the header of the empty document is reused
make_source_stale(fonts_dict) ==
  [source_info |-> source_info(0), fonts |-> fonts_dict]

\* lines 330-341
make_source(fonts_dict) ==
  [source_info |-> source_info(len(fonts_dict)), fonts |-> fonts_dict]

_create_empty_source == [source_info |-> source_info(0), fonts |-> <<>>]

\* fonts[font_id] = transformed
put(d, k, v) == [x \in DOMAIN d \cup {k} |-> IF x = k THEN v ELSE d[x]]

(* ------------------------------ the output file ------------------------ *)
(* json.dump writes the document piece by piece: here one piece for the     *)
(* header and one for each entry of the fonts mapping.                      *)

chunk_count(doc) == 1 + len(doc.fonts)

NoFile == [exists |-> FALSE, doc |-> Absent, written |-> 0]

\* the complete document a previous run left
OldFile ==
  [exists |-> TRUE, doc |-> Some(_create_empty_source),
   written |-> chunk_count(_create_empty_source)]

\* open(output_file, "w"): the file is created or truncated
opened(doc) == [exists |-> TRUE, doc |-> Some(doc), written |-> 0]

complete(f) == f.exists /\ f.doc # Absent /\ f.written = chunk_count(f.doc[1])

(* ------------------------------ bounds and inputs ---------------------- *)

MaxRecords == 2

MaxFiles == 6

MaxFileCount == 9

MaxTokens == 4

MaxWords == 3

SeqsUpTo(S, n) == UNION {[1..k -> S] : k \in 0..n}

BaseRecord ==
  [isdict |-> TRUE, family_name |-> Absent, license |-> Absent, designer |-> Absent,
   foundry |-> Absent, classification |-> Absent, is_free |-> FALSE,
   description |-> Absent, short_description |-> Absent, version |-> Absent,
   updated_at |-> Absent, family_urlname |-> Absent, font_files |-> Absent]

Named(n) == [BaseRecord EXCEPT !.family_name = Some(n)]

\* a list element that is not a JSON object
NotADict == [BaseRecord EXCEPT !.isdict = FALSE]

\* a license value that is a string
BadLicense ==
  [Named(<<"A","b">>) EXCEPT !.license = Some([isdict |-> FALSE, name |-> Absent, url |-> Absent])]

File(n, ttf, otf) == [name |-> n, ttf_url |-> ttf, otf_url |-> otf]

\* a record with most optional keys present
RichRecord ==
  [Named(<<"A","b">>) EXCEPT
     !.license = Some([isdict |-> TRUE, name |-> Some(<<"O","F","L">>), url |-> Absent]),
     !.designer = Some(<<"J","a","n","e">>),
     !.classification = Some([name |-> Some(<<"S","a","n","s"," ","S","e","r","i","f">>)]),
     !.is_free = TRUE,
     !.updated_at = Some(<<"D", "T", "t">>),
     !.font_files = Some(<<File(Some(<<"B","o","l","d">>), Some(<<"u1">>), Absent),
                           File(Absent, Absent, Some(<<"u2">>))>>)]

\* the records a fetched list is made of: four that cannot be mapped, and
\* family names that collide ("A b", "a_b", "a-b") or do not ("Ab") after
\* normalisation
PipelineRecords ==
  { NotADict, BaseRecord, Named(<<>>), BadLicense,
    Named(<<"A"," ","b">>), Named(<<"a","_","b">>), Named(<<"a","-","b">>), RichRecord }

FileShapes ==
  { File(Absent, Some(<<"u1">>), Absent),
    File(Some(<<"B","o","l","d">>), Absent, Some(<<"u2">>)),
    File(Some(<<"I","t","a","l","i","c">>), Some(<<"u3">>), Some(<<"u4">>)),
    File(Some(<<"L","i","g","h","t">>), Some(<<>>), Absent) }

\* records for _extract_variants: no font_files key, or a list of up to n files
VariantInputs(n) ==
  {Named(<<"A"," ","b">>), [Named(<<"A"," ","b">>) EXCEPT !.family_urlname = Some(<<"a","b">>)]}
  \cup {[Named(<<"A","b">>) EXCEPT !.font_files = Some(fs)] : fs \in SeqsUpTo(FileShapes, n)}

OptStrings == {Absent, Some(<<>>), Some(<<"d">>)}

SameFile == File(Some(<<"B","o","l","d">>), Some(<<"u1">>), Absent)

FileCounts(n) == {Absent} \cup {Some([i \in 1..k |-> SameFile]) : k \in 0..n}

\* records for _calculate_popularity: every bonus condition, up to n files
PopularityInputs(n) ==
  {[Named(<<"A","b">>) EXCEPT !.is_free = f, !.description = d, !.short_description = sd,
                       !.designer = de, !.foundry = fo, !.font_files = ff] :
     f \in BOOLEAN, d \in OptStrings, sd \in OptStrings, de \in OptStrings,
     fo \in OptStrings, ff \in FileCounts(n)}

TimeTokens == {"D", "t", "T", " ", "Z", "+00:00", "+05:30", "x"}

\* records for last_modified: no updated_at key, or a string of up to n pieces
DateInputs(n) ==
  {Named(<<"A","b">>)}
  \cup {[Named(<<"A","b">>) EXCEPT !.updated_at = Some(s)] : s \in SeqsUpTo(TimeTokens, n)}

Words ==
  { <<"T","h","i","n">>, <<"E","x","t","r","a">>, <<"U","l","t","r","a">>, <<"L","i","g","h","t">>, <<"R","e","g","u","l","a","r">>, <<"N","o","r","m","a","l">>, <<"M","e","d","i","u","m">>,
    <<"S","e","m","i">>, <<"B","o","l","d">>, <<"B","L","A","C","K">>, <<"I","t","a","l","i","c">>, <<"O","b","l","i","q","u","e">>, <<"F","u","n","k","y">> }

Separators == {<<" ">>, <<"-">>}

RECURSIVE NamesOf(_)
NamesOf(n) ==
  IF n = 1 THEN Words
  ELSE {a \o s \o w : a \in NamesOf(n - 1), s \in Separators, w \in Words}

\* variant names of up to n words
VariantNames(n) == UNION {NamesOf(k) : k \in 1..n}

(* ------------------------------ main() and translate() ----------------- *)

Event(ev, i) == [ev |-> ev, i |-> i]

HelperIdle ==
  /\ arg = Absent
  /\ ret = Absent

Init ==
  /\ pc = "main"
  /\ HelperIdle
  /\ raw_fonts = <<>>
  /\ idx = 0
  /\ fonts = <<>>
  /\ processed = 0
  /\ skipped = 0
  /\ source_data = Absent
  /\ file \in {NoFile, OldFile}
  /\ file_before = file
  /\ exitCode = -1
  /\ fetched = "pending"
  /\ log = <<>>

\* fetch_fonts returned: its list is translate()'s raw_fonts
Fetched(how, result) ==
  /\ pc = "main"
  /\ pc' = "fetched"
  /\ fetched' = how
  /\ raw_fonts' = result
  /\ log' = Append(log, Event("request", 0))
  /\ UNCHANGED <<arg, ret, idx, fonts, processed, skipped, source_data, file,
                 file_before, exitCode>>

\* mutant of FetchTransportFail: the request is issued again after a failure
FetchTransportRetry ==
  /\ pc = "main"
  /\ Len(log) < 2
  /\ log' = Append(log, Event("request", 0))
  /\ UNCHANGED <<pc, arg, ret, raw_fonts, idx, fonts, processed, skipped, source_data,
                 file, file_before, exitCode, fetched>>

\* session.get raises a RequestException (connection error, timeout)
FetchTransportFail == Fetched("transport", <<>>)

\* mutant of FetchHttpError: the HTTPError is not caught in fetch_fonts and
\* reaches main()
FetchHttpErrorUncaught ==
  /\ pc = "main"
  /\ pc' = "done"
  /\ fetched' = "status"
  /\ exitCode' = 1
  /\ log' = log \o <<Event("request", 0), Event("fetch_raised", 1)>>
  /\ UNCHANGED <<arg, ret, raw_fonts, idx, fonts, processed, skipped, source_data,
                 file, file_before>>

\* raise_for_status raises HTTPError, a RequestException
FetchHttpError == Fetched("status", <<>>)

\* response.json() is the list of records, possibly empty
FetchOk ==
  /\ pc = "main"
  /\ \E fs \in SeqsUpTo(PipelineRecords, MaxRecords) : Fetched("ok", fs)

\* response.json() fails on a body that is not JSON: the error is a
\* RequestException in requests >= 2.27 and a plain ValueError before, which
\* leaves translate() and is caught in main()
FetchBadJson ==
  \/ Fetched("badjson", <<>>)
  \/ /\ pc = "main"
     /\ pc' = "done"
     /\ fetched' = "badjson"
     /\ exitCode' = 1
     /\ log' = log \o <<Event("request", 0), Event("fetch_raised", 1)>>
     /\ UNCHANGED <<arg, ret, raw_fonts, idx, fonts, processed, skipped, source_data,
                    file, file_before>>

\* lines 296-298
ShortCircuit ==
  /\ pc = "fetched"
  /\ raw_fonts = <<>>
  /\ source_data' = Some(_create_empty_source)
  /\ pc' = "write"
  /\ UNCHANGED <<arg, ret, raw_fonts, idx, fonts, processed, skipped, file,
                 file_before, exitCode, fetched, log>>

\* lines 301-303
BeginLoop ==
  /\ pc = "fetched"
  /\ raw_fonts # <<>>
  /\ fonts' = <<>>
  /\ processed' = 0
  /\ skipped' = 0
  /\ idx' = 1
  /\ pc' = "loop"
  /\ UNCHANGED <<arg, ret, raw_fonts, source_data, file, file_before, exitCode,
                 fetched, log>>

\* transform_font(font_data) for each record a fetched list can hold, worked
\* out once: None is Absent, and a record that makes the call raise has no row
transformed_of ==
  [font_data \in {r \in PipelineRecords : ~transform_raises(r)} |->
     transform_font(font_data)]

\* mutant of Iterate: translate() has no try/except around the loop body, so
\* an exception that leaves transform_font ends the run in main()
IterateAborting ==
  /\ pc = "loop"
  /\ idx <= Len(raw_fonts)
  /\ LET font_data == raw_fonts[idx] IN
       \/ /\ transform_raises(font_data)
          /\ pc' = "done"
          /\ exitCode' = 1
          /\ UNCHANGED <<fonts, processed, skipped>>
       \/ /\ ~transform_raises(font_data)
          /\ transformed_of[font_data] = Absent
          /\ skipped' = skipped + 1
          /\ UNCHANGED <<fonts, processed, pc, exitCode>>
       \/ /\ ~transform_raises(font_data)
          /\ transformed_of[font_data] # Absent
          /\ fonts' = put(fonts, font_id(font_data.family_name[1]),
                          transformed_of[font_data][1])
          /\ processed' = processed + 1
          /\ UNCHANGED <<skipped, pc, exitCode>>
  /\ idx' = idx + 1
  /\ log' = Append(log, Event("transform", idx))
  /\ UNCHANGED <<arg, ret, raw_fonts, source_data, file, file_before, fetched>>

\* one iteration of the for loop, lines 305-325
Iterate ==
  /\ pc = "loop"
  /\ idx <= Len(raw_fonts)
  /\ LET font_data == raw_fonts[idx] IN
       \/ /\ transform_raises(font_data)
          /\ skipped' = skipped + 1
          /\ UNCHANGED <<fonts, processed>>
       \/ /\ ~transform_raises(font_data)
          /\ transformed_of[font_data] = Absent
          /\ skipped' = skipped + 1
          /\ UNCHANGED <<fonts, processed>>
       \/ /\ ~transform_raises(font_data)
          /\ transformed_of[font_data] # Absent
          /\ fonts' = put(fonts, font_id(font_data.family_name[1]),
                          transformed_of[font_data][1])
          /\ processed' = processed + 1
          /\ UNCHANGED skipped
  /\ idx' = idx + 1
  /\ log' = Append(log, Event("transform", idx))
  /\ UNCHANGED <<pc, arg, ret, raw_fonts, source_data, file, file_before, exitCode,
                 fetched>>

\* the loop is over: lines 327-343
BuildDocument ==
  /\ pc = "loop"
  /\ idx > Len(raw_fonts)
  /\ source_data' = Some(make_source(fonts))
  /\ pc' = "write"
  /\ UNCHANGED <<arg, ret, raw_fonts, idx, fonts, processed, skipped, file,
                 file_before, exitCode, fetched, log>>

\* os.makedirs or open raises: nothing was written, main() returns 1
OpenFails ==
  /\ pc = "write"
  /\ pc' = "done"
  /\ exitCode' = 1
  /\ log' = Append(log, Event("open_failed", 1))
  /\ UNCHANGED <<arg, ret, raw_fonts, idx, fonts, processed, skipped, source_data,
                 file, file_before, fetched>>

\* open(output_file, "w") creates or truncates the file
OpenFile ==
  /\ pc = "write"
  /\ pc' = "dump"
  /\ file' = opened(source_data[1])
  /\ log' = Append(log, Event("open", 0))
  /\ UNCHANGED <<arg, ret, raw_fonts, idx, fonts, processed, skipped, source_data,
                 file_before, exitCode, fetched>>

\* json.dump writes the next piece of the document
DumpChunk ==
  /\ pc = "dump"
  /\ file.written < chunk_count(source_data[1])
  /\ file' = [file EXCEPT !.written = @ + 1]
  /\ UNCHANGED <<pc, arg, ret, raw_fonts, idx, fonts, processed, skipped, source_data,
                 file_before, exitCode, fetched, log>>

\* a write raises (disk full, I/O error): the with block closes the file as
\* it is and main() returns 1
DumpFails ==
  /\ pc = "dump"
  /\ pc' = "done"
  /\ exitCode' = 1
  /\ log' = Append(log, Event("write_failed", 1))
  /\ UNCHANGED <<arg, ret, raw_fonts, idx, fonts, processed, skipped, source_data,
                 file, file_before, fetched>>

\* json.dump returned: main() returns 0
DumpDone ==
  /\ pc = "dump"
  /\ file.written = chunk_count(source_data[1])
  /\ pc' = "done"
  /\ exitCode' = 0
  /\ log' = Append(log, Event("exit", 0))
  /\ UNCHANGED <<arg, ret, raw_fonts, idx, fonts, processed, skipped, source_data,
                 file, file_before, fetched>>

Next ==
  \/ FetchTransportFail
  \/ FetchHttpError
  \/ FetchOk
  \/ FetchBadJson
  \/ ShortCircuit
  \/ BeginLoop
  \/ Iterate
  \/ BuildDocument
  \/ OpenFails
  \/ OpenFile
  \/ DumpChunk
  \/ DumpFails
  \/ DumpDone

Spec == Init /\ [][Next]_vars

\* main() is one sequential thread: while a step is possible, one is taken
FairSpec == Spec /\ WF_vars(Next)

(* ------------------------------ helpers on their own ------------------- *)

PipelineIdle ==
  /\ raw_fonts = <<>>
  /\ idx = 0
  /\ fonts = <<>>
  /\ processed = 0
  /\ skipped = 0
  /\ source_data = Absent
  /\ file = NoFile
  /\ file_before = NoFile
  /\ exitCode = -1
  /\ fetched = "pending"
  /\ log = <<>>

pipeline_vars ==
  <<raw_fonts, idx, fonts, processed, skipped, source_data, file, file_before,
    exitCode, fetched, log>>

HelperInit(inputs) ==
  /\ pc = "call"
  /\ arg \in inputs
  /\ ret = Absent
  /\ PipelineIdle

\* transform_font called on one record
CallTransform ==
  /\ pc = "call"
  /\ ~transform_raises(arg)
  /\ ret' = transform_font(arg)
  /\ pc' = "return"
  /\ UNCHANGED <<arg, pipeline_vars>>

InitVariants == HelperInit(VariantInputs(MaxFiles))

SpecVariants == InitVariants /\ [][CallTransform]_vars

InitPopularity == HelperInit(PopularityInputs(MaxFileCount))

SpecPopularity == InitPopularity /\ [][CallTransform]_vars

InitDate == HelperInit(DateInputs(MaxTokens))

SpecDate == InitDate /\ [][CallTransform]_vars

InitParse == HelperInit(VariantNames(MaxWords))

CallParse ==
  /\ pc = "call"
  /\ ret' = [weight |-> _parse_weight(arg), style |-> _parse_style(arg)]
  /\ pc' = "return"
  /\ UNCHANGED <<arg, pipeline_vars>>

SpecParse == InitParse /\ [][CallParse]_vars
(* ======================= properties of the pipeline ==================== *)

\* positions of the log that hold an event of kind ev
EventsAt(ev) == {p \in 1..Len(log) : log[p].ev = ev}

\* a write of the output file failed in this run
WriteFailed == EventsAt("open_failed") \cup EventsAt("write_failed") # {}

\* record i of raw_fonts cannot be mapped: it is not a JSON object, it has no
\* family name, or its license is not a JSON object
MappingFails(i) ==
  LET r == raw_fonts[i] IN
  \/ ~r.isdict
  \/ r.family_name = Absent
  \/ r.family_name = Some(<<>>)
  \/ r.license # Absent /\ ~r.license[1].isdict

\* the records the loop has mapped so far
Done(i) == i \in 1..Len(raw_fonts) /\ i < idx

Successes == {i \in 1..Len(raw_fonts) : Done(i) /\ ~MappingFails(i)}

NameOf(i) == raw_fonts[i].family_name[1]

\* two characters that differ at most in case, or are both one of space,
\* underscore and hyphen
SameChar(c, d) ==
  \/ c = d
  \/ \E k \in 1..Len(UpperChars) : {c, d} = {UpperChars[k], LowerChars[k]}
  \/ {c, d} \subseteq {" ", "_", "-"}

\* two family names that differ only in case and in space/underscore/hyphen
SameNormalised(a, b) ==
  Len(a) = Len(b) /\ \A k \in 1..Len(a) : SameChar(a[k], b[k])

\* the translate() loop is over and the document was built from it
LoopFinished == source_data # Absent /\ raw_fonts # <<>>

\* C1 as stated: the document's total_fonts equals the processed counter,
\* also when family names differ only in case or in space versus underscore
C1_TotalIsProcessed ==
  source_data # Absent => source_data[1].source_info.total_fonts = processed

\* C1 amended: total_fonts is the number of entries of the fonts mapping, which
\* is the number of distinct normalised family names among the records whose
\* transform succeeded; it never exceeds processed and equals it exactly when
\* no two of those records have names that differ only in case or in
\* space/underscore/hyphen
C1_TotalIsDistinctKeys ==
  LoopFinished =>
    LET total == source_data[1].source_info.total_fonts
        firsts == {i \in Successes :
                     \A j \in Successes : j < i => ~SameNormalised(NameOf(i), NameOf(j))}
    IN /\ total = Cardinality(DOMAIN source_data[1].fonts)
       /\ total = Cardinality({font_id(NameOf(i)) : i \in Successes})
       /\ total = Cardinality(firsts)
       /\ processed = Cardinality(Successes)
       /\ total <= processed
       /\ (total = processed <=> firsts = Successes)

\* two successful records whose names differ only in case: one entry, two processed
C1_Witness ==
  /\ LoopFinished
  /\ processed = 2
  /\ source_data[1].source_info.total_fonts = 1

\* C2: after a transport failure, a non-success status or an empty list,
\* fetch_fonts yields the empty sequence, no record is transformed, the document
\* has total_fonts = 0 and no fonts, and main() (its write not failing) writes
\* that document and returns 0
FetchYieldedNothing ==
  fetched \in {"transport", "status"} \/ (fetched = "ok" /\ raw_fonts = <<>>)

C2_EmptyFetch ==
  FetchYieldedNothing =>
    /\ raw_fonts = <<>>
    /\ EventsAt("transform") = {}
    /\ pc \notin {"fetched", "loop"} => source_data = Some(_create_empty_source)
    /\ source_data # Absent =>
         /\ source_data[1].source_info.total_fonts = 0
         /\ DOMAIN source_data[1].fonts = {}
    /\ (pc = "done" /\ ~WriteFailed) =>
         /\ exitCode = 0
         /\ complete(file)
         /\ file.doc = source_data

C2_Witness ==
  /\ fetched = "status"
  /\ pc = "done"
  /\ exitCode = 0
  /\ file.doc = Some(_create_empty_source)

\* C3: a record whose mapping fails is counted as skipped and never aborts the
\* run: every record of the fetched sequence is transformed, the run leaves
\* the loop with a document, and processed + skipped is the number of records
C3_SkipAndContinue ==
  /\ pc = "loop" =>
       /\ processed + skipped = idx - 1
       /\ skipped = Cardinality({i \in 1..Len(raw_fonts) : Done(i) /\ MappingFails(i)})
  /\ (pc \in {"write", "dump", "done"} /\ raw_fonts # <<>>) =>
       /\ source_data # Absent
       /\ {log[p].i : p \in EventsAt("transform")} = 1..Len(raw_fonts)
       /\ processed + skipped = Len(raw_fonts)
       /\ skipped = Cardinality({i \in 1..Len(raw_fonts) : MappingFails(i)})
       /\ processed = Cardinality({i \in 1..Len(raw_fonts) : ~MappingFails(i)})

\* a record that is not a JSON object comes first, a good record after it, and
\* the run ends with both counted
C3_Witness ==
  /\ pc = "done"
  /\ Len(raw_fonts) = 2
  /\ ~raw_fonts[1].isdict
  /\ skipped = 1
  /\ processed = 1

\* C4 as stated: when the write of the output file fails, main() returns 1 and
\* the file is as it was before the run or holds a complete document
C4_NoPartialOutput ==
  (pc = "done" /\ WriteFailed) =>
    /\ exitCode = 1
    /\ (file = file_before \/ complete(file))

\* C5 as stated: two records with different family names never receive the
\* same key, and no successfully transformed entry is overwritten by another
C5_Injective ==
  /\ \A i, j \in Successes :
       NameOf(i) # NameOf(j) => font_id(NameOf(i)) # font_id(NameOf(j))
  /\ pc = "loop" =>
       \A i \in Successes :
         /\ font_id(NameOf(i)) \in DOMAIN fonts
         /\ fonts[font_id(NameOf(i))].family = NameOf(i)

\* C5 amended: the key is the source tag followed by the family name
\* lowercased with spaces and underscores turned into hyphens; two records
\* receive the same key exactly when their family names differ only in case
\* and in space/underscore/hyphen; of the successful records with one key the
\* last fetched is the entry kept, and records with different keys never
\* overwrite each other
C5_InjectiveUpToNormalisation ==
  /\ \A i, j \in Successes :
       font_id(NameOf(i)) = font_id(NameOf(j)) <=> SameNormalised(NameOf(i), NameOf(j))
  /\ pc = "loop" =>
       /\ DOMAIN fonts = {font_id(NameOf(i)) : i \in Successes}
       /\ \A i \in Successes :
            LET last == CHOOSE j \in Successes :
                          /\ SameNormalised(NameOf(j), NameOf(i))
                          /\ \A k \in Successes :
                               SameNormalised(NameOf(k), NameOf(i)) => k <= j
            IN fonts[font_id(NameOf(i))].family = NameOf(last)

\* "A b" then "a_b": one key, the second record's entry is the one kept
C5_Witness ==
  /\ pc = "loop"
  /\ Successes = {1, 2}
  /\ NameOf(1) = <<"A"," ","b">>
  /\ NameOf(2) = <<"a","_","b">>
  /\ DOMAIN fonts = {<<"squirrel.", "a", "-", "b">>}
  /\ fonts[<<"squirrel.", "a", "-", "b">>].family = <<"a","_","b">>

\* the order of the run's events: one request, first of all; the records
\* transformed one by one in fetch order; the file opened after the last one
RunInOrder ==
  /\ Cardinality(EventsAt("request")) <= 1
  /\ pc # "main" => EventsAt("request") = {1}
  /\ \A p \in EventsAt("transform") :
       /\ p > 1
       /\ log[p].i = p - 1
       /\ log[p].i <= Len(raw_fonts)
  /\ \A p \in EventsAt("open") \cup EventsAt("open_failed") \cup EventsAt("write_failed")
                \cup EventsAt("exit") :
       /\ Cardinality(EventsAt("transform")) = Len(raw_fonts)
       /\ \A q \in EventsAt("transform") : q < p
  /\ file # file_before => EventsAt("open") # {}
  /\ pc = "done" <=> exitCode \in {0, 1}

\* C10: exactly one network request, never retried, completed before the first
\* record is transformed; records transformed one at a time in fetch order;
\* the output file written only after the last record; and every run ends
\* with exit code 0 or 1
C10_SequentialAndTerminates ==
  /\ []RunInOrder
  /\ <>(pc = "done" /\ exitCode \in {0, 1})

\* a run over two records that wrote the file and returned 0
C10_Witness ==
  /\ pc = "done"
  /\ exitCode = 0
  /\ Len(raw_fonts) = 2
  /\ Cardinality(EventsAt("transform")) = 2
  /\ complete(file)

(* ======================= properties of the helpers ===================== *)

\* the keyword table of the weight parser, in its stated priority order
WeightTable ==
  << [keywords |-> {<<"t","h","i","n">>, <<"h","a","i","r","l","i","n","e">>}, weight |-> 100],
     [keywords |-> {<<"e","x","t","r","a","-","l","i","g","h","t">>, <<"u","l","t","r","a","-","l","i","g","h","t">>}, weight |-> 200],
     [keywords |-> {<<"l","i","g","h","t">>}, weight |-> 300],
     [keywords |-> {<<"r","e","g","u","l","a","r">>, <<"n","o","r","m","a","l">>}, weight |-> 400],
     [keywords |-> {<<"m","e","d","i","u","m">>}, weight |-> 500],
     [keywords |-> {<<"s","e","m","i","-","b","o","l","d">>, <<"d","e","m","i","-","b","o","l","d">>}, weight |-> 600],
     [keywords |-> {<<"b","o","l","d">>}, weight |-> 700],
     [keywords |-> {<<"e","x","t","r","a","-","b","o","l","d">>, <<"u","l","t","r","a","-","b","o","l","d">>}, weight |-> 800],
     [keywords |-> {<<"b","l","a","c","k">>, <<"h","e","a","v","y">>}, weight |-> 900] >>

Matches(name, row) == \E k \in WeightTable[row].keywords : Contains(lower(name), k)

\* the weight of the first row of the table that matches, 400 when none does
FirstMatchWeight(name) ==
  IF \E row \in 1..Len(WeightTable) : Matches(name, row)
  THEN WeightTable[CHOOSE row \in 1..Len(WeightTable) :
                     /\ Matches(name, row)
                     /\ \A r \in 1..(row - 1) : ~Matches(name, r)].weight
  ELSE 400

\* C6 as stated: "Extra Bold Italic" parses to weight 800 and style italic,
\* "Regular" to 400 and normal, "Funky" to 400, and every name to the weight
\* of the first matching keyword in the priority order
C6_WeightParser ==
  pc = "return" =>
    /\ arg = <<"E","x","t","r","a"," ","B","o","l","d"," ","I","t","a","l","i","c">> => (ret.weight = 800 /\ ret.style = "italic")
    /\ arg = <<"R","e","g","u","l","a","r">> => (ret.weight = 400 /\ ret.style = "normal")
    /\ arg = <<"F","u","n","k","y">> => ret.weight = 400
    /\ ret.weight = FirstMatchWeight(arg)

\* the entries of an explicit font_files list that carry a ttf or otf url
WithUrl(font_files) ==
  {j \in 1..Len(font_files) :
     truthy(font_files[j].ttf_url) \/ truthy(font_files[j].otf_url)}

\* the i-th member of a set of positions, in increasing order
Nth(S, i) == CHOOSE j \in S : Cardinality({k \in S : k < j}) = i - 1

\* C7: whichever branch is taken, the variant list of the FontEntry has at most
\* 5 entries, they are the first 5 produced in source order, and every variant
\* carries the subset list ["latin"]
C7_VariantsCapped ==
  pc = "return" =>
    /\ ret # Absent
    /\ LET variants == ret[1].variants
           font_files == get(arg.font_files, <<>>)
       IN /\ Len(variants) <= 5
          /\ \A i \in 1..Len(variants) : variants[i].subsets = <<"latin">>
          /\ font_files # <<>> =>
               /\ Len(variants) = Min(5, Cardinality(WithUrl(font_files)))
               /\ \A i \in 1..Len(variants) :
                    LET file_info == font_files[Nth(WithUrl(font_files), i)] IN
                    /\ variants[i].name = get(file_info.name, <<"R","e","g","u","l","a","r">>)
                    /\ "ttf" \in DOMAIN variants[i].files <=> truthy(file_info.ttf_url)
                    /\ "otf" \in DOMAIN variants[i].files <=> truthy(file_info.otf_url)
          /\ font_files = <<>> =>
               /\ Len(variants) = 5
               /\ \A i \in 1..5 :
                    /\ variants[i].name = arg.family_name[1] \o <<" ">> \o variant_patterns[i].name
                    /\ variants[i].weight = variant_patterns[i].weight
                    /\ variants[i].style = variant_patterns[i].style
                    /\ DOMAIN variants[i].files = {"ttf"}

\* an explicit list of six files, each with a url, cut to five variants
C7_Witness ==
  /\ pc = "return"
  /\ arg.font_files # Absent
  /\ Cardinality(WithUrl(arg.font_files[1])) = 6
  /\ Len(ret[1].variants) = 5

Bonus(condition, points) == IF condition THEN points ELSE 0

\* a description, designer or foundry counts as present when it has a
\* non-empty value
AllBonuses(r) ==
  /\ r.is_free
  /\ truthy(r.description) \/ truthy(r.short_description)
  /\ truthy(r.designer)
  /\ truthy(r.foundry)
  /\ Len(get(r.font_files, <<>>)) >= 8

TimezoneDesignators == {"Z", "+00:00", "+05:30"}

\* an ISO-8601 UTC timestamp: date, "T", time and a trailing "Z", which is
\* its only timezone designator
WellFormedUtc(s) ==
  /\ Len(s) = 4
  /\ s[1] = "D"
  /\ s[2] = "T"
  /\ s[3] \in {"t", "00:00:00", "05:30:00"}
  /\ s[4] = "Z"
  /\ Cardinality({k \in 1..Len(s) : s[k] \in TimezoneDesignators}) = 1

\* C9 as stated: the record is transformed whatever updated_at holds, and
\* last_modified is the empty string or a well-formed UTC timestamp with one
\* timezone designator, a trailing "Z", also when updated_at ends in "Z"
C9_LastModifiedWellFormed ==
  pc = "return" =>
    /\ ret # Absent
    /\ \/ ret[1].last_modified = <<>>
       \/ WellFormedUtc(ret[1].last_modified)
====
